---- MODULE Spec2Model ----
(***************************************************************************)
(* Organization onboarding finalizer of cal.com:                           *)
(* createOrganizationFromOnboarding and its helpers                        *)
(* (createOrganizationWithOwner, inviteMembers,                            *)
(* createOrMoveTeamsToOrganization), invoked again and again by the        *)
(* payment webhook for one persisted OrganizationOnboarding record.        *)
(* Every awaited external call is one step that either completes or        *)
(* throws; a throw aborts the invocation and leaves what was persisted.    *)
(* The module also holds the host filter filterHostsByLeadThreshold        *)
(* (FilterSpec), the seat cancellation cancelAttendeeSeat (SeatSpec) and   *)
(* the tRPC handler getMemberAvailabilityHandler (AvailabilitySpec);       *)
(* each part has its own variables and leaves the others' untouched.       *)
(***************************************************************************)
EXTENDS Integers, Sequences, FiniteSets, TLC

\* ---------------------------------------------------------------- bounds
\* Invocations of the finalizer (webhook deliveries and retries) explored.
MaxInvocations == 3
\* External calls that throw, over all invocations.
MaxFailures == 2

\* ------------------------------------------------------------- constants
\* `id: number | null`: a missing id is falsy; real ids start at 1.
NoId == 0
\* A slug that is null (deferred); `!organization.slug` is true of it.
NoSlug == ""
\* The slug the onboarding record asks for.
OnboardingSlug == "acme"
\* The existing team the owner is a member of before the onboarding.
OwnerTeamId == 1

NoOrg == [id |-> NoId, slug |-> NoSlug]

\* `maxLeadThreshold: number | null`: null, told apart from every number.
NullThreshold == -1
\* perUserData before any ranking was asked for.
\* A per-user map of the ranking that is null.
NullMap == [isNull |-> TRUE, map |-> << >>]
\* perUserData before any ranking was asked for.
NoData ==
  [ bookingsCount |-> << >>, weights |-> NullMap, calibrations |-> NullMap,
    bookingShortfalls |-> NullMap ]

\* The awaited external calls of one invocation, in the order of the code.
Steps ==
  { "setupDomain", "assertCanCreateOrg", "createOrg", "sendEmail",
    "seedAvailability", "setOrganizationId", "invite", "createTeams", "setSlug" }

\* The awaited calls of one invocation that only read: the lookup of the
\* owner, the two getTranslation calls and findById / findBySlug.
Reads == { "findOwner", "translateOwner", "translateOrg", "lookup" }

\* A JSON value of a serialized payload, with its type.
Json(type, value) == [type |-> type, value |-> value]

\* Serialized invitedMembers payloads an onboarding record may carry. The
\* first two pass the schema; the others have a malformed email, an email
\* that is no string, a name that is no string, and no email.
MemberPayloads ==
  { << >>,
    << [email |-> Json("string", "m1@acme.co")],
       [email |-> Json("string", "m2@acme.co"), name |-> Json("string", "M2")] >>,
    << [email |-> Json("string", "m1.acme.co")] >>,
    << [email |-> Json("number", 7)] >>,
    << [email |-> Json("string", "m1@acme.co"), name |-> Json("number", 7)] >>,
    << [name |-> Json("string", "M1")] >> }

\* Serialized teams payloads an onboarding record may carry. The first
\* three pass the schema; the others lack the slug field, have an id that is
\* a string, a flag that is a string, and a second team whose name and slug
\* are numbers.
TeamPayloads ==
  { << >>,
    << [id |-> Json("number", 1), name |-> Json("string", "sales"),
        isBeingMigrated |-> Json("boolean", TRUE), slug |-> Json("string", "sales")] >>,
    << [id |-> Json("number", 1), name |-> Json("string", "sales"),
        isBeingMigrated |-> Json("boolean", TRUE), slug |-> Json("string", "sales")],
       [id |-> Json("number", -1), name |-> Json("string", "support"),
        isBeingMigrated |-> Json("boolean", FALSE), slug |-> Json("string", "support")] >>,
    << [id |-> Json("number", 1), name |-> Json("string", "sales"),
        isBeingMigrated |-> Json("boolean", TRUE)] >>,
    << [id |-> Json("string", "1"), name |-> Json("string", "sales"),
        isBeingMigrated |-> Json("boolean", TRUE), slug |-> Json("string", "sales")] >>,
    << [id |-> Json("number", 1), name |-> Json("string", "sales"),
        isBeingMigrated |-> Json("string", "yes"), slug |-> Json("string", "sales")] >>,
    << [id |-> Json("number", 1), name |-> Json("string", "sales"),
        isBeingMigrated |-> Json("boolean", TRUE), slug |-> Json("string", "sales")],
       [id |-> Json("number", -1), name |-> Json("number", 5),
        isBeingMigrated |-> Json("boolean", FALSE), slug |-> Json("number", 5)] >> }

VARIABLES
  \* persisted and external state
  ownerExists,     \* a user with onboarding.orgOwnerEmail exists
  ownerTeamHasOrgSlug, \* the owner's team OwnerTeamId carries the onboarding slug
  onboarding,      \* the persisted OrganizationOnboarding record
  orgs,            \* organizations created, orgs[id] = [slug |-> ...]
  memberships,     \* membership rows [teamId, email], in creation order
  teamParent,      \* parent organization of the owner's existing team
  createdTeams,    \* teams created inside organizations: [orgId, name]
  domainExists,    \* the external domain has been provisioned
  tried,           \* tried[s]: times external call s was issued
  done,            \* done[s]: times external call s completed
  \* one invocation of createOrganizationFromOnboarding
  pc,              \* position in the invocation
  arg,             \* the organizationOnboarding argument
  organization,    \* the local `organization` object
  canSetSlug,      \* local of createOrganizationWithOwner
  found,           \* the lookup of this invocation returned an organization
  teamsReturned,   \* createOrMoveTeamsToOrganization returned in this invocation
  failedAt,        \* where the last aborted invocation threw
  atStart,         \* persisted state when this invocation started
  invocations,     \* invocations started
  failures,        \* external calls that threw
  \* one use of filterHostsByLeadThreshold by a caller
  hosts,           \* the caller's host list
  maxLeadThreshold,\* the caller's lead threshold (NullThreshold: null)
  eventType,       \* [isRRWeightsEnabled]
  perUserData,     \* what getOrderedListOfLuckyUsers returns for these hosts
  filterResult,    \* outcome of the last call
  firstResult,     \* outcome of the first call
  filterCalls,     \* calls that have ended
  filterIssued,    \* calls made
  filterPending,   \* the calls that await getOrderedListOfLuckyUsers
  hostsChanged,    \* the caller has changed its host array during a call
  \* one call of cancelAttendeeSeat
  seatReq,         \* the request: body, bookingToDelete and dataForWebhooks
  seatPc,          \* position in the handler
  seatReference,   \* the local `seatReference`
  deletedSeats,    \* referenceUids of the bookingSeat rows deleted
  deletedAttendees,\* ids of the attendee rows deleted
  deletes,         \* the two deletes of the Promise.all: none, pending or settled
  statusCode,      \* req.statusCode
  refIdx,          \* references of the booking the loop has gone through
  integrationsToUpdate, \* the promises pushed by the loop, with their state
  emailsSent,      \* ids of the attendees sent a cancelled-seat email
  promises,        \* promises[w]: state of the delivery to webhook w
  completionOrder, \* webhooks in the order their deliveries settled
  loggedErrors,    \* webhooks whose delivery failure was logged
  remindersDeleted,\* ids of the workflow reminders deleted
  seatOutcome,     \* how the call ended
  \* one call of getMemberAvailabilityHandler
  avInput,         \* ctx.user.id and input: teamId, memberId
  teamMemberships, \* the membership rows: [teamId, userId]
  avPc,            \* position in the handler
  team,            \* the local `team`: what isTeamMember returned
  members,         \* the local `members`
  listFetches,     \* teamIds findByTeamIdForAvailability was called with
  member,          \* the local `member`
  user,            \* the local `user`: the enriched member.user
  availabilityCalls, \* arguments of the calls of getUserAvailability
  avOutcome        \* how the call ended

onboardingVars ==
  << ownerExists, ownerTeamHasOrgSlug, onboarding, orgs, memberships, teamParent,
     createdTeams, domainExists, tried, done, pc, arg, organization, canSetSlug,
     found, teamsReturned, failedAt, atStart, invocations, failures >>

filterVars ==
  << hosts, maxLeadThreshold, eventType, perUserData, filterResult, firstResult,
     filterCalls, filterIssued, filterPending, hostsChanged >>

seatVars ==
  << seatReq, seatPc, seatReference, deletedSeats, deletedAttendees, deletes, statusCode,
     refIdx, integrationsToUpdate, emailsSent, promises, completionOrder,
     loggedErrors, remindersDeleted, seatOutcome >>

availabilityVars ==
  << avInput, teamMemberships, avPc, team, members, listFetches, member, user,
     availabilityCalls, avOutcome >>

vars == << onboardingVars, filterVars, seatVars, availabilityVars >>

\* What a step of the onboarding finalizer cannot touch.
notOnboardingVars == << filterVars, seatVars, availabilityVars >>

envVars == << ownerExists, ownerTeamHasOrgSlug >>
dbVars == << onboarding, orgs, memberships, teamParent, createdTeams, domainExists >>
localVars == << arg, organization, canSetSlug, found, teamsReturned >>

\* Everything an invocation can change outside its own locals.
Persisted ==
  [ onboarding |-> onboarding, orgs |-> orgs, memberships |-> memberships,
    teamParent |-> teamParent, createdTeams |-> createdTeams,
    domainExists |-> domainExists, tried |-> tried, done |-> done ]

Bump(f, s) == [f EXCEPT ![s] = @ + 1]

\* ------------------------------------------------------ repository layer
\* OrganizationRepository.findById
FindById(id) ==
  IF id \in 1..Len(orgs) THEN [id |-> id, slug |-> orgs[id].slug] ELSE NoOrg

\* OrganizationRepository.findBySlug: the organization carrying the slug.
FindBySlug(slug) ==
  LET hits == { i \in 1..Len(orgs) : orgs[i].slug = slug }
  IN IF hits = {} THEN NoOrg
     ELSE LET i == CHOOSE i \in hits : \A j \in hits : i <= j
          IN [id |-> i, slug |-> orgs[i].slug]

\* checkSlugConflict inside assertCanCreateOrg: a team of the owner, not yet
\* moved under an organization, carries the requested slug.
SlugConflictType ==
  IF ownerTeamHasOrgSlug /\ teamParent = NoId
    THEN "teamUserIsMemberOfExists" ELSE "noTeamConflict"

\* inviteMembersWithNoInviterPermissionCheck: a membership row for every
\* invited email. What it does with an email that already has a row in the
\* team is its own affair: it skips the email (skipsExisting) or adds a row.
RECURSIVE InviteHandler(_, _, _, _)
InviteHandler(rows, teamId, emails, skipsExisting) ==
  IF emails = << >> THEN rows
  ELSE LET e == Head(emails)
           has == \E i \in 1..Len(rows) : rows[i] = [teamId |-> teamId, email |-> e]
       IN InviteHandler(IF has /\ skipsExisting
                          THEN rows ELSE Append(rows, [teamId |-> teamId, email |-> e]),
                        teamId, Tail(emails), skipsExisting)

\* ------------------------------------------------------------ zod parsing
\* z.string().email() on a string: strings are atoms here, so the test is
\* told for the strings of MemberPayloads (one has no @).
MatchesEmail(s) == s \in { "m1@acme.co", "m2@acme.co" }

\* z.array(z.object({ email: z.string().email(), name: z.string().optional() })).parse
MembersSchemaOk(raw) ==
  \A i \in 1..Len(raw) :
    /\ "email" \in DOMAIN raw[i]
    /\ raw[i].email.type = "string"
    /\ MatchesEmail(raw[i].email.value)
    /\ "name" \in DOMAIN raw[i] => raw[i].name.type = "string"

\* z.array(z.object({ id: z.number(), name: z.string(),
\*                     isBeingMigrated: z.boolean(), slug: z.string() })).parse
TeamsSchemaOk(raw) ==
  \A i \in 1..Len(raw) :
    /\ {"id", "name", "isBeingMigrated", "slug"} \subseteq DOMAIN raw[i]
    /\ raw[i].id.type = "number"
    /\ raw[i].name.type = "string"
    /\ raw[i].isBeingMigrated.type = "boolean"
    /\ raw[i].slug.type = "string"

ParseOk == MembersSchemaOk(arg.invitedMembers) /\ TeamsSchemaOk(arg.teams)

\* invitedMembers.map((member) => member.email)
RECURSIVE Emails(_)
Emails(ms) ==
  IF ms = << >> THEN << >> ELSE << Head(ms).email.value >> \o Emails(Tail(ms))

\* teams.filter((team) => !team.isBeingMigrated).map((team) => team.name)
TeamsToCreate(ts) ==
  { ts[i].name.value : i \in { j \in 1..Len(ts) : ~ts[j].isBeingMigrated.value } }
\* teams.filter((team) => team.isBeingMigrated).map(id)
TeamsToMove(ts) ==
  { ts[i].id.value : i \in { j \in 1..Len(ts) : ts[j].isBeingMigrated.value } }

\* The orgData object createOrganizationFromOnboarding builds.
OrgData ==
  [ id |-> arg.organizationId, slug |-> arg.slug, isPlatform |-> FALSE ]

\* --------------------------------------------------------------- Init
OnboardingInit ==
  /\ ownerExists \in BOOLEAN
  /\ ownerTeamHasOrgSlug \in BOOLEAN
  /\ onboarding \in
       [ organizationId : {NoId}, slug : {OnboardingSlug}, isPlatform : BOOLEAN,
         invitedMembers : MemberPayloads, teams : TeamPayloads ]
  /\ orgs = << >>
  /\ memberships = << >>
  /\ teamParent = NoId
  /\ createdTeams = {}
  /\ domainExists = FALSE
  /\ tried = [s \in Steps |-> 0]
  /\ done = [s \in Steps |-> 0]
  /\ pc = "idle"
  /\ arg = onboarding
  /\ organization = NoOrg
  /\ canSetSlug = TRUE
  /\ found = FALSE
  /\ teamsReturned = FALSE
  /\ failedAt = "none"
  /\ atStart = Persisted
  /\ invocations = 0
  /\ failures = 0

\* No call of filterHostsByLeadThreshold is under way.
NoResult ==
  [kind |-> "none", hosts |-> << >>, error |-> "", rankingCalls |-> 0,
   filteredUserIds |-> << >>, call |-> 0, input |-> << >>, read |-> << >>]

FilterIdle ==
  /\ hosts = << >>
  /\ maxLeadThreshold = NullThreshold
  /\ eventType = [isRRWeightsEnabled |-> FALSE]
  /\ perUserData = NoData
  /\ filterResult = NoResult
  /\ firstResult = NoResult
  /\ filterCalls = 0
  /\ filterIssued = 0
  /\ filterPending = {}
  /\ hostsChanged = FALSE

\* `seatsReferences.find(...)` found nothing: undefined.
NoSeatReference == [referenceUid |-> "", attendeeId |-> NoId]

\* cancelAttendeeSeat has not ended.
NoOutcome == [kind |-> "none", statusCode |-> 0, message |-> "", at |-> ""]

\* A request that cancels no seat.
NoRequest ==
  [ body |-> [cancellationReason |-> ""],
    bookingToDelete |->
      [ attendees |-> << >>, userId |-> NoId, seatsReferences |-> << >>,
        references |-> << >>, workflowReminders |-> << >> ],
    webhooks |-> << >>,
    unhandledRejections |-> "throw" ]

\* The variables of a call of cancelAttendeeSeat that has not started.
SeatNotStarted ==
  /\ seatPc = "start"
  /\ seatReference = NoSeatReference
  /\ deletedSeats = {}
  /\ deletedAttendees = {}
  /\ deletes = [d \in {"bookingSeat", "attendee"} |-> "none"]
  /\ statusCode = 0
  /\ refIdx = 0
  /\ integrationsToUpdate = << >>
  /\ emailsSent = {}
  /\ promises = << >>
  /\ completionOrder = << >>
  /\ loggedErrors = {}
  /\ remindersDeleted = {}
  /\ seatOutcome = NoOutcome

\* No call of cancelAttendeeSeat is under way.
SeatIdle == seatReq = NoRequest /\ SeatNotStarted

\* `members.find(...)` found nothing, or isTeamMember found no membership.
NoMember == [userId |-> NoId, user |-> [id |-> NoId, username |-> ""]]

\* getMemberAvailabilityHandler has not ended.
NoAvOutcome == [kind |-> "none", code |-> "", message |-> "", at |-> ""]

\* The variables of a call of getMemberAvailabilityHandler that has not started.
AvailabilityNotStarted ==
  /\ avPc = "start"
  /\ team = [teamId |-> NoId, userId |-> NoId]
  /\ members = {}
  /\ listFetches = << >>
  /\ member = NoMember
  /\ user = NoMember.user
  /\ availabilityCalls = << >>
  /\ avOutcome = NoAvOutcome

\* No call of getMemberAvailabilityHandler is under way.
AvailabilityIdle ==
  /\ avInput = [userId |-> NoId, teamId |-> NoId, memberId |-> NoId]
  /\ teamMemberships = {}
  /\ AvailabilityNotStarted

Init == OnboardingInit /\ FilterIdle /\ SeatIdle /\ AvailabilityIdle

\* ------------------------------------------------------------- actions
\* The webhook handler loads the onboarding record and calls the finalizer.
StartInvocation ==
  /\ UNCHANGED notOnboardingVars
  /\ pc \in {"idle", "done", "failed"}
  /\ invocations < MaxInvocations
  /\ invocations' = invocations + 1
  /\ arg' = onboarding
  /\ organization' = NoOrg
  /\ canSetSlug' = TRUE
  /\ found' = FALSE
  /\ teamsReturned' = FALSE
  /\ atStart' = Persisted
  /\ pc' = "findOwner"
  /\ UNCHANGED << envVars, dbVars, tried, done, failedAt, failures >>

\* FindOwner without the `if (!owner) throw`.
FindOwnerUnchecked ==
  /\ UNCHANGED notOnboardingVars
  /\ pc = "findOwner"
  /\ pc' = "translateOwner"
  /\ UNCHANGED << envVars, dbVars, tried, done, localVars, failedAt, atStart,
                  invocations, failures >>

\* await findUserToBeOrgOwner(...) returns, and the throw when there is no
\* such user.
FindOwner ==
  /\ UNCHANGED notOnboardingVars
  /\ pc = "findOwner"
  /\ IF ownerExists
       THEN pc' = "translateOwner" /\ UNCHANGED failedAt
       ELSE pc' = "failed" /\ failedAt' = "findOwner"
  /\ UNCHANGED << envVars, dbVars, tried, done, localVars, atStart, invocations, failures >>

\* await getTranslation(owner.locale || "en", "common") returns, in
\* createOrganizationFromOnboarding.
TranslateForOwner ==
  /\ UNCHANGED notOnboardingVars
  /\ pc = "translateOwner"
  /\ pc' = "setupDomain"
  /\ UNCHANGED << envVars, dbVars, tried, done, localVars, failedAt, atStart,
                  invocations, failures >>

\* SetupDomain with the call left out.
SetupDomainLeftOut ==
  /\ UNCHANGED notOnboardingVars
  /\ pc = "setupDomain"
  /\ pc' = "translateOrg"
  /\ UNCHANGED << envVars, dbVars, tried, done, localVars, failedAt, atStart,
                  invocations, failures >>

\* await setupDomain(...): tolerates a domain that exists already.
SetupDomain ==
  /\ UNCHANGED notOnboardingVars
  /\ pc = "setupDomain"
  /\ domainExists' = TRUE
  /\ tried' = Bump(tried, "setupDomain")
  /\ done' = Bump(done, "setupDomain")
  /\ pc' = "translateOrg"
  /\ UNCHANGED << envVars, onboarding, orgs, memberships, teamParent, createdTeams,
                  localVars, failedAt, atStart, invocations, failures >>

\* createOrganizationWithOwner: await getTranslation(...) returns.
TranslateForOrg ==
  /\ UNCHANGED notOnboardingVars
  /\ pc = "translateOrg"
  /\ pc' = "lookup"
  /\ UNCHANGED << envVars, dbVars, tried, done, localVars, failedAt, atStart,
                  invocations, failures >>

\* createOrganizationWithOwner: findById / findBySlug returns, and the early
\* return.
LookupOrganization ==
  /\ UNCHANGED notOnboardingVars
  /\ pc = "lookup"
  /\ LET o == IF OrgData.id # NoId THEN FindById(OrgData.id) ELSE FindBySlug(OrgData.slug)
     IN /\ organization' = o
        /\ found' = (o.id # NoId)
        /\ pc' = IF o.id # NoId THEN "parse" ELSE "assertCanCreateOrg"
  /\ UNCHANGED << envVars, dbVars, tried, done, arg, canSetSlug, teamsReturned,
                  failedAt, atStart, invocations, failures >>

\* assertCanCreateOrg and canSetSlug.
AssertCanCreateOrg ==
  /\ UNCHANGED notOnboardingVars
  /\ pc = "assertCanCreateOrg"
  /\ canSetSlug' = (SlugConflictType # "teamUserIsMemberOfExists")
  /\ tried' = Bump(tried, "assertCanCreateOrg")
  /\ done' = Bump(done, "assertCanCreateOrg")
  /\ pc' = "createOrg"
  /\ UNCHANGED << envVars, dbVars, arg, organization, found, teamsReturned,
                  failedAt, atStart, invocations, failures >>

\* OrganizationRepository.createWithExistingUserAsOwner.
CreateOrganization ==
  /\ UNCHANGED notOnboardingVars
  /\ pc = "createOrg"
  /\ LET slug == IF canSetSlug THEN OrgData.slug ELSE NoSlug
     IN /\ orgs' = Append(orgs, [slug |-> slug])
        /\ organization' = [id |-> Len(orgs) + 1, slug |-> slug]
  /\ tried' = Bump(tried, "createOrg")
  /\ done' = Bump(done, "createOrg")
  /\ pc' = IF ~OrgData.isPlatform THEN "sendEmail" ELSE "seedAvailability"
  /\ UNCHANGED << envVars, onboarding, memberships, teamParent, createdTeams, domainExists,
                  arg, canSetSlug, found, teamsReturned, failedAt, atStart,
                  invocations, failures >>

\* sendOrganizationCreationEmail.
SendCreationEmail ==
  /\ UNCHANGED notOnboardingVars
  /\ pc = "sendEmail"
  /\ tried' = Bump(tried, "sendEmail")
  /\ done' = Bump(done, "sendEmail")
  /\ pc' = "seedAvailability"
  /\ UNCHANGED << envVars, dbVars, localVars, failedAt, atStart, invocations, failures >>

\* prisma.availability.createMany.
SeedAvailability ==
  /\ UNCHANGED notOnboardingVars
  /\ pc = "seedAvailability"
  /\ tried' = Bump(tried, "seedAvailability")
  /\ done' = Bump(done, "seedAvailability")
  /\ pc' = "setOrganizationId"
  /\ UNCHANGED << envVars, dbVars, localVars, failedAt, atStart, invocations, failures >>

\* OrganizationOnboardingRepository.setOrganizationId.
SetOrganizationId ==
  /\ UNCHANGED notOnboardingVars
  /\ pc = "setOrganizationId"
  /\ onboarding' = [onboarding EXCEPT !.organizationId = organization.id]
  /\ tried' = Bump(tried, "setOrganizationId")
  /\ done' = Bump(done, "setOrganizationId")
  /\ pc' = "parse"
  /\ UNCHANGED << envVars, orgs, memberships, teamParent, createdTeams, domainExists,
                  localVars, failedAt, atStart, invocations, failures >>

\* The two zod parses of the serialized payloads.
ParsePayloads ==
  /\ UNCHANGED notOnboardingVars
  /\ pc = "parse"
  /\ IF ParseOk
       THEN pc' = "invite" /\ UNCHANGED failedAt
       ELSE pc' = "failed" /\ failedAt' = "parse"
  /\ UNCHANGED << envVars, dbVars, tried, done, localVars, atStart, invocations, failures >>

\* inviteMembers.
InviteMembers ==
  /\ UNCHANGED notOnboardingVars
  /\ pc = "invite"
  /\ IF Len(arg.invitedMembers) = 0
       THEN UNCHANGED << memberships, tried, done >>
       ELSE /\ \E skipsExisting \in BOOLEAN :
                 memberships' = InviteHandler(memberships, organization.id,
                                              Emails(arg.invitedMembers), skipsExisting)
            /\ tried' = Bump(tried, "invite")
            /\ done' = Bump(done, "invite")
  /\ pc' = "createTeams"
  /\ UNCHANGED << envVars, onboarding, orgs, teamParent, createdTeams, domainExists,
                  localVars, failedAt, atStart, invocations, failures >>

\* createOrMoveTeamsToOrganization, with createTeamsHandler.
CreateOrMoveTeams ==
  /\ UNCHANGED notOnboardingVars
  /\ pc = "createTeams"
  /\ IF Len(arg.teams) = 0
       THEN UNCHANGED << teamParent, createdTeams, tried, done >>
       ELSE /\ teamParent' = IF OwnerTeamId \in TeamsToMove(arg.teams)
                               THEN organization.id ELSE teamParent
            /\ createdTeams' = createdTeams \cup
                 { [orgId |-> organization.id, name |-> n] : n \in TeamsToCreate(arg.teams) }
            /\ tried' = Bump(tried, "createTeams")
            /\ done' = Bump(done, "createTeams")
  /\ teamsReturned' = TRUE
  /\ pc' = "setSlug"
  /\ UNCHANGED << envVars, onboarding, orgs, memberships, domainExists,
                  arg, organization, canSetSlug, found, failedAt, atStart,
                  invocations, failures >>

\* SetSlug that returns without ever setting the slug.
SetSlugSkipped ==
  /\ UNCHANGED notOnboardingVars
  /\ pc = "setSlug"
  /\ pc' = "done"
  /\ UNCHANGED << envVars, dbVars, tried, done, localVars, failedAt, atStart,
                  invocations, failures >>

\* SetSlug without the `if (!organization.slug)` test.
SetSlugUnconditional ==
  /\ UNCHANGED notOnboardingVars
  /\ pc = "setSlug"
  /\ orgs' = [orgs EXCEPT ![organization.id].slug = arg.slug]
  /\ tried' = Bump(tried, "setSlug")
  /\ done' = Bump(done, "setSlug")
  /\ pc' = "done"
  /\ UNCHANGED << envVars, onboarding, memberships, teamParent, createdTeams, domainExists,
                  localVars, failedAt, atStart, invocations, failures >>

\* if (!organization.slug) await OrganizationRepository.setSlug(...); return.
SetSlug ==
  /\ UNCHANGED notOnboardingVars
  /\ pc = "setSlug"
  /\ IF organization.slug = NoSlug
       THEN /\ orgs' = [orgs EXCEPT ![organization.id].slug = arg.slug]
            /\ tried' = Bump(tried, "setSlug")
            /\ done' = Bump(done, "setSlug")
       ELSE UNCHANGED << orgs, tried, done >>
  /\ pc' = "done"
  /\ UNCHANGED << envVars, onboarding, memberships, teamParent, createdTeams, domainExists,
                  localVars, failedAt, atStart, invocations, failures >>

\* Whether the code, at position s, issues the external call s.
Calls(s) ==
  CASE s = "invite" -> Len(arg.invitedMembers) # 0
    [] s = "createTeams" -> Len(arg.teams) # 0
    [] s = "setSlug" -> organization.slug = NoSlug
    [] OTHER -> TRUE

\* An awaited call throws: the invocation is aborted, nothing of the call is
\* persisted.
Throw ==
  /\ UNCHANGED notOnboardingVars
  /\ pc \in Steps \cup Reads
  /\ Calls(pc)
  /\ failures < MaxFailures
  /\ failures' = failures + 1
  /\ tried' = IF pc \in Steps THEN Bump(tried, pc) ELSE tried
  /\ failedAt' = pc
  /\ pc' = "failed"
  /\ UNCHANGED << envVars, dbVars, done, localVars, atStart, invocations >>

Next ==
  \/ StartInvocation
  \/ FindOwner
  \/ TranslateForOwner
  \/ SetupDomain
  \/ TranslateForOrg
  \/ LookupOrganization
  \/ AssertCanCreateOrg
  \/ CreateOrganization
  \/ SendCreationEmail
  \/ SeedAvailability
  \/ SetOrganizationId
  \/ ParsePayloads
  \/ InviteMembers
  \/ CreateOrMoveTeams
  \/ SetSlug
  \/ Throw

Spec == Init /\ [][Next]_vars

\* The webhook provider redelivers after a failure and every call that is
\* issued returns or throws.
FairSpec == Spec /\ WF_vars(Next)

\* ------------------------------------------- lead-threshold host filter
\* Largest lead threshold a caller passes.
MaxThreshold == 3
\* Calls of the filter a caller makes with the same arguments.
MaxFilterCalls == 2

UserIds == {1, 2, 3}
\* Booking counts, weights and shortfalls the ranking may report.
BookingCounts == {2, 5, 8}
Weights == {1, 2}
Shortfalls == {-5, -2}
\* A pool in which one host carries nearly all the weight, each host one
\* booking ahead.
UnevenWeights == {1, 48}
\* The thresholds a caller passes: the small ones and one as large as the
\* total weight of an uneven pool.
Thresholds == 0..MaxThreshold \cup {49}
\* The sets of users the ranking may list.
RankedUserSets == { {}, {1}, {1, 2}, {2, 3}, {1, 2, 3} }

MAX_LEAD_THRESHOLD_FALSY == "Max lead threshold should be null or > 1, not 0."
NullDataError == "Calibrations, weights, or booking shortfalls are null"
\* What a rejected getOrderedListOfLuckyUsers rejects with.
RankingError == "getOrderedListOfLuckyUsers failed"
\* Reading hosts[0].user of an empty host list.
TypeError == "TypeError: Cannot read properties of undefined (reading 'user')"

Host(u) == [user |-> [id |-> u]]

\* Host lists: distinct users, in ascending and in other orders.
HostLists ==
  { << >>,
    << Host(1) >>,
    << Host(3) >>,
    << Host(1), Host(2) >>,
    << Host(3), Host(1) >>,
    << Host(1), Host(2), Host(3) >>,
    << Host(3), Host(2), Host(1) >> }

Present(m) == [isNull |-> FALSE, map |-> m]
OrNull(S) == {NullMap} \cup { Present(m) : m \in S }

\* The nullable maps of the ranking data, each null or not; where one of
\* them is null the others hold one value for every user.
NullFields == { "weights", "calibrations", "bookingShortfalls" }
WithNulls(keys, nulls) ==
  [ bookingsCount |-> [u \in keys |-> 2],
    weights |-> IF "weights" \in nulls THEN NullMap ELSE Present([u \in keys |-> 1]),
    calibrations |-> IF "calibrations" \in nulls THEN NullMap
                     ELSE Present([u \in keys |-> 0]),
    bookingShortfalls |-> IF "bookingShortfalls" \in nulls THEN NullMap
                          ELSE Present([u \in keys |-> -2]) ]

\* What getOrderedListOfLuckyUsers may return for the users `keys`. The
\* weighted policy reads bookingsCount only for its keys and the unweighted
\* policy reads nothing but bookingsCount, so the unread numbers are fixed.
\* A weighted ranking of every user is one of an uneven pool.
RankingsFor(keys, weighted) ==
  IF weighted
    THEN { [ bookingsCount |-> [u \in keys |-> 0], weights |-> Present(w),
             calibrations |-> Present([u \in keys |-> 0]),
             bookingShortfalls |-> Present(sf) ] :
             w \in IF Cardinality(keys) < Cardinality(UserIds)
                      THEN [keys -> Weights] ELSE {},
             sf \in [keys -> Shortfalls] }
         \cup { [ bookingsCount |-> [u \in keys |-> 0], weights |-> Present(w),
                  calibrations |-> Present([u \in keys |-> 0]),
                  bookingShortfalls |-> Present(sf) ] :
                  w \in [keys -> UnevenWeights], sf \in [keys -> {-1}] }
         \cup { WithNulls(keys, nulls) : nulls \in (SUBSET NullFields) \ {{}} }
    ELSE { [ bookingsCount |-> b,
             weights |-> Present([u \in keys |-> 1]),
             calibrations |-> Present([u \in keys |-> 0]),
             bookingShortfalls |-> Present([u \in keys |-> 0]) ] :
             b \in [keys -> BookingCounts] }
         \cup { WithNulls(keys, {n}) : n \in NullFields }

\* Object keys that are integers are visited in ascending order.
RECURSIVE Ascending(_)
Ascending(S) ==
  IF S = {} THEN << >>
  ELSE LET m == CHOOSE x \in S : \A y \in S : x <= y
       IN << m >> \o Ascending(S \ {m})

\* Object.values(obj).reduce((sum, v) => sum + v, 0)
RECURSIVE SumValues(_)
SumValues(f) ==
  IF DOMAIN f = {} THEN 0
  ELSE LET k == CHOOSE x \in DOMAIN f : TRUE
       IN f[k] + SumValues([x \in DOMAIN f \ {k} |-> f[x]])

\* Math.min(...values); of no value it is Infinity, which is never compared.
MinValue(f) ==
  LET vals == { f[k] : k \in DOMAIN f }
  IN CHOOSE v \in vals : \A w \in vals : v <= w

\* JavaScript numbers are IEEE-754 binary64. A positive one is kept as its
\* 53 significant bits, most significant (always 1) first, and the exponent
\* of that first bit: the number is bits[1].bits[2]...bits[53] * 2^exp.
SignificandBits == 53
ZeroDouble == [zero |-> TRUE, bits |-> << >>, exp |-> 0]

\* Adds one unit in the last place; carry is 1 when every bit was 1.
RECURSIVE IncrementBits(_, _, _)
IncrementBits(bits, i, tail) ==
  IF i = 0 THEN [bits |-> tail, carry |-> 1]
  ELSE IF bits[i] = 0
         THEN [bits |-> SubSeq(bits, 1, i - 1) \o << 1 >> \o tail, carry |-> 0]
         ELSE IncrementBits(bits, i - 1, << 0 >> \o tail)

\* Round to nearest, ties to even: bits are the first 53 bits of the exact
\* result, guard its next bit, sticky whether any later bit is set.
RoundToNearestEven(bits, exp, guard, sticky) ==
  IF guard = 1 /\ (sticky \/ bits[SignificandBits] = 1)
    THEN LET up == IncrementBits(bits, SignificandBits, << >>)
         IN IF up.carry = 1
              THEN [zero |-> FALSE,
                    bits |-> << 1 >> \o SubSeq(up.bits, 1, SignificandBits - 1),
                    exp |-> exp + 1]
              ELSE [zero |-> FALSE, bits |-> up.bits, exp |-> exp]
    ELSE [zero |-> FALSE, bits |-> bits, exp |-> exp]

\* Scales num / den by powers of two until den <= num < 2 * den.
RECURSIVE Normalise(_, _, _)
Normalise(num, den, exp) ==
  IF num < den THEN Normalise(2 * num, den, exp - 1)
  ELSE IF num >= 2 * den THEN Normalise(num, 2 * den, exp + 1)
  ELSE [num |-> num, den |-> den, exp |-> exp]

\* The next n bits of rem / den (rem < den) by long division, after acc.
RECURSIVE QuotientBits(_, _, _, _)
QuotientBits(rem, den, n, acc) ==
  IF n = 0 THEN [bits |-> acc, rem |-> rem]
  ELSE IF 2 * rem >= den
         THEN QuotientBits(2 * rem - den, den, n - 1, Append(acc, 1))
         ELSE QuotientBits(2 * rem, den, n - 1, Append(acc, 0))

\* weight / totalWeight of two positive integers, correctly rounded.
DoubleQuotient(num, den) ==
  IF num = 0 THEN ZeroDouble
  ELSE LET n == Normalise(num, den, 0)
           q == QuotientBits(n.num - n.den, n.den, SignificandBits, << 1 >>)
       IN RoundToNearestEven(SubSeq(q.bits, 1, SignificandBits), n.exp,
                             q.bits[SignificandBits + 1], q.rem > 0)

\* The bits of bits * k for an integer k >= 1, from the last bit up.
RECURSIVE ProductBits(_, _, _, _, _)
ProductBits(bits, i, k, carry, acc) ==
  IF i = 0
    THEN IF carry = 0 THEN acc
         ELSE ProductBits(bits, 0, k, carry \div 2, << carry % 2 >> \o acc)
    ELSE ProductBits(bits, i - 1, k, (bits[i] * k + carry) \div 2,
                     << (bits[i] * k + carry) % 2 >> \o acc)

\* k * d for a non-negative integer k and a double d, correctly rounded.
DoubleTimes(k, d) ==
  IF k = 0 \/ d.zero THEN ZeroDouble
  ELSE LET p == ProductBits(d.bits, SignificandBits, k, 0, << >>)
           extra == Len(p) - SignificandBits
       IN RoundToNearestEven(SubSeq(p, 1, SignificandBits), d.exp + extra,
                             IF extra > 0 THEN p[SignificandBits + 1] ELSE 0,
                             \E j \in (SignificandBits + 2)..Len(p) : p[j] = 1)

\* The integer a bit string stands for.
RECURSIVE BitsValue(_, _)
BitsValue(bits, acc) ==
  IF bits = << >> THEN acc ELSE BitsValue(Tail(bits), 2 * acc + Head(bits))

\* The integer part of a non-negative double below 2^53.
IntegerPart(d) ==
  IF d.zero \/ d.exp < 0 THEN 0 ELSE BitsValue(SubSeq(d.bits, 1, d.exp + 1), 0)

\* const weightPercentage = weight / totalWeight;
\* const allowedLead = maxLeadThreshold * weightPercentage;
\* (a null threshold counts as 0 in a product)
ComputeAllowedLead(threshold, weight, totalWeight) ==
  DoubleTimes(IF threshold = NullThreshold THEN 0 ELSE threshold,
              DoubleQuotient(weight, totalWeight))

\* The allowed leads of the thresholds, weights and total weights above,
\* computed once.
AllowedLeads ==
  [ t \in Thresholds, w \in Weights \cup UnevenWeights,
    total \in 1..(Cardinality(UserIds) * 48) |-> ComputeAllowedLead(t, w, total) ]

AllowedLead(threshold, weight, totalWeight) ==
  IF /\ threshold \in Thresholds
     /\ weight \in Weights \cup UnevenWeights
     /\ totalWeight \in 1..(Cardinality(UserIds) * 48)
    THEN AllowedLeads[threshold, weight, totalWeight]
    ELSE ComputeAllowedLead(threshold, weight, totalWeight)

\* -shortfall > allowedLead: an integer exceeds a non-negative double exactly
\* when it exceeds the double's integer part.
ExceedsAllowedLead(shortfall, lead) == -shortfall > IntegerPart(lead)

\* filterHostsByLeadThresholdWithWeights
RECURSIVE WithWeightsLoop(_, _, _, _)
WithWeightsLoop(ids, data, threshold, totalWeight) ==
  IF ids = << >> THEN << >>
  ELSE LET u == Head(ids)
           shortfall == data.bookingShortfalls.map[u]
           weight == data.weights.map[u]
           allowedLead == AllowedLead(threshold, weight, totalWeight)
           rest == WithWeightsLoop(Tail(ids), data, threshold, totalWeight)
       IN IF ExceedsAllowedLead(shortfall, allowedLead) THEN rest ELSE << u >> \o rest

FilterWithWeights(data, threshold) ==
  WithWeightsLoop(Ascending(DOMAIN data.bookingsCount), data, threshold,
                  SumValues(data.weights.map))

\* The comparison written as <.
StrictlyWithinLead(bookingsCount, minBookings, threshold) ==
  bookingsCount < minBookings + threshold

\* bookingsCount <= minBookings + maxLeadThreshold
WithinLead(bookingsCount, minBookings, threshold) ==
  bookingsCount <= minBookings + threshold

\* filterHostsByLeadThresholdWithoutWeights
RECURSIVE WithoutWeightsLoop(_, _, _)
WithoutWeightsLoop(ids, data, threshold) ==
  IF ids = << >> THEN << >>
  ELSE LET u == Head(ids)
           rest == WithoutWeightsLoop(Tail(ids), data, threshold)
       IN IF WithinLead(data.bookingsCount[u], MinValue(data.bookingsCount), threshold)
            THEN << u >> \o rest ELSE rest

FilterWithoutWeights(data, threshold) ==
  WithoutWeightsLoop(Ascending(DOMAIN data.bookingsCount), data, threshold)

\* filteredUserIds.includes(id)
Includes(ids, id) == \E i \in 1..Len(ids) : ids[i] = id

\* The result built from the ids instead: filteredUserIds.flatMap(id => hosts with id).
RECURSIVE KeepHostsInIdOrder(_, _)
KeepHostsInIdOrder(hs, ids) ==
  IF ids = << >> THEN << >>
  ELSE SelectSeq(hs, LAMBDA h : h.user.id = Head(ids)) \o KeepHostsInIdOrder(hs, Tail(ids))

\* hosts.filter((host) => filteredUserIds.includes(host.user.id))
KeepHosts(hs, ids) == SelectSeq(hs, LAMBDA h : Includes(ids, h.user.id))

\* How a call ended: it threw e or returned hs, after `calls` calls of the
\* ranking function.
Thrown(e, calls) ==
  [kind |-> "error", hosts |-> << >>, error |-> e, rankingCalls |-> calls,
   filteredUserIds |-> << >>]
Returned(hs, calls, ids) ==
  [kind |-> "ok", hosts |-> hs, error |-> "", rankingCalls |-> calls,
   filteredUserIds |-> ids]

\* The outcome r of call n, with the host array as it was passed and as it
\* was when line 154 read it (nothing for a call that threw before that).
Outcome(r, n, input, read) ==
  [kind |-> r.kind, hosts |-> r.hosts, error |-> r.error,
   rankingCalls |-> r.rankingCalls, filteredUserIds |-> r.filteredUserIds,
   call |-> n, input |-> input, read |-> read]

\* The test written against undefined: never true of null.
FilterDisabledNever(threshold) == FALSE

\* if (maxLeadThreshold === null) return hosts
FilterDisabled(threshold) == threshold = NullThreshold

\* The test without its calibrations disjunct.
RequiredDataMissingButCalibrations(data) ==
  data.weights.isNull \/ data.bookingShortfalls.isNull

\* perUserData.calibrations === null || weights === null || bookingShortfalls === null
RequiredDataMissing(data) ==
  data.calibrations.isNull \/ data.weights.isNull \/ data.bookingShortfalls.isNull

\* The policy branch of filterHostsByLeadThreshold.
ApplyPolicy(hs, threshold, et, data) ==
  IF et.isRRWeightsEnabled
    THEN IF RequiredDataMissing(data)
           THEN Thrown(NullDataError, 1)
           ELSE LET ids == FilterWithWeights(data, threshold)
                IN Returned(KeepHosts(hs, ids), 1, ids)
    ELSE LET ids == FilterWithoutWeights(data, threshold)
         IN Returned(KeepHosts(hs, ids), 1, ids)

\* The onboarding finalizer is not running.
OnboardingNotRunning ==
  /\ OnboardingInit
  /\ ~ownerExists
  /\ ~ownerTeamHasOrgSlug
  /\ ~onboarding.isPlatform
  /\ onboarding.invitedMembers = << >>
  /\ onboarding.teams = << >>

FilterInit ==
  /\ OnboardingNotRunning
  /\ SeatIdle
  /\ AvailabilityIdle
  /\ hosts \in HostLists
  /\ maxLeadThreshold \in {NullThreshold} \cup Thresholds
  /\ eventType \in { [isRRWeightsEnabled |-> b] : b \in BOOLEAN }
  /\ perUserData \in
       UNION { RankingsFor(keys, eventType.isRRWeightsEnabled) : keys \in RankedUserSets }
  /\ filterResult = NoResult
  /\ firstResult = NoResult
  /\ filterCalls = 0
  /\ filterIssued = 0
  /\ filterPending = {}
  /\ hostsChanged = FALSE

\* A call has ended with outcome r.
FilterEnd(r) ==
  /\ filterCalls' = filterCalls + 1
  /\ filterResult' = r
  /\ firstResult' = IF r.call = 1 THEN r ELSE firstResult

\* Lines 93-127: a caller calls filterHostsByLeadThreshold({ hosts,
\* maxLeadThreshold, eventType }). With a null threshold the call returns the
\* array at once; otherwise it reads hosts[0], calls the ranking function and
\* awaits it.
FilterCall ==
  /\ filterIssued < MaxFilterCalls
  /\ filterIssued' = filterIssued + 1
  /\ IF FilterDisabled(maxLeadThreshold)
       THEN /\ FilterEnd(Outcome(Returned(hosts, 0, << >>), filterIssued', hosts, hosts))
            /\ UNCHANGED filterPending
       ELSE IF hosts = << >>
       THEN /\ FilterEnd(Outcome(Thrown(TypeError, 0), filterIssued', hosts, << >>))
            /\ UNCHANGED filterPending
       ELSE /\ filterPending' = filterPending \cup
                 { [call |-> filterIssued', input |-> hosts,
                    maxLeadThreshold |-> maxLeadThreshold] }
            /\ UNCHANGED << filterCalls, filterResult, firstResult >>
  /\ UNCHANGED << hosts, maxLeadThreshold, eventType, perUserData, hostsChanged,
                  onboardingVars, seatVars, availabilityVars >>

\* Lines 111-155: the ranking function of one awaiting call rejects, or it
\* resolves and the call goes on with the policy and with hosts.filter on
\* the array as it is by then.
FilterResume ==
  /\ \E c \in filterPending :
       /\ filterPending' = filterPending \ {c}
       /\ \E ok \in BOOLEAN :
            LET r == IF ok
                       THEN ApplyPolicy(hosts, c.maxLeadThreshold, eventType, perUserData)
                       ELSE Thrown(RankingError, 1)
            IN FilterEnd(Outcome(r, c.call, c.input,
                                 IF r.kind = "ok" THEN hosts ELSE << >>))
  /\ UNCHANGED << hosts, maxLeadThreshold, eventType, perUserData, filterIssued,
                  hostsChanged, onboardingVars, seatVars, availabilityVars >>

\* The users that have no host in hs.
Absent(hs) == { u \in UserIds : \A i \in 1..Len(hs) : hs[i].user.id # u }

\* While a call awaits the ranking, a callback of the caller pushes a host
\* onto the array it passed: the host of the first user not yet in it.
CallerPushesHost ==
  /\ filterPending # {}
  /\ ~hostsChanged
  /\ hostsChanged' = TRUE
  /\ Absent(hosts) # {}
  /\ hosts' = Append(hosts, Host(CHOOSE u \in Absent(hosts) : \A v \in Absent(hosts) : u <= v))
  /\ UNCHANGED << maxLeadThreshold, eventType, perUserData, filterResult, firstResult,
                  filterCalls, filterIssued, filterPending,
                  onboardingVars, seatVars, availabilityVars >>

FilterNext ==
  \/ FilterCall
  \/ FilterResume
  \/ CallerPushesHost

FilterSpec == FilterInit /\ [][FilterNext]_vars

\* ------------------------------------------------------ cancelAttendeeSeat
\* Seat cancellation of a booking with seats (cancelAttendeeSeat): guards,
\* deletion of the seat and the attendee, best-effort update of the calendar
\* and video integrations, emails, webhook fan-out and removal of the
\* workflow reminders of the seat. Every await is a point where the promises
\* already started may settle; a promise settles once, fulfilled or rejected.

\* Webhooks subscribed to BOOKING_CANCELLED that are explored.
MaxWebhooks == 2

SeatUids == { "s1", "s2" }

\* Request bodies: one names the seat to cancel, one lacks seatReferenceUid.
Bodies == { [seatReferenceUid |-> "s1"], [cancellationReason |-> "late"] }

Attendee(i) == [id |-> i]

AttendeeLists == { << >>, << Attendee(1) >>, << Attendee(1), Attendee(2) >> }

\* bookingToDelete.seatsReferences; the last one points at an attendee that
\* is not among bookingToDelete.attendees.
SeatsReferenceLists ==
  { << >>,
    << [referenceUid |-> "s2", attendeeId |-> 2] >>,
    << [referenceUid |-> "s1", attendeeId |-> 1] >>,
    << [referenceUid |-> "s2", attendeeId |-> 2], [referenceUid |-> "s1", attendeeId |-> 1] >>,
    << [referenceUid |-> "s1", attendeeId |-> 3] >> }

\* The types that include "_video", and those that include "_calendar".
VideoTypes == { "daily_video", "zoom_video", "office365_video_calendar" }
CalendarTypes == { "google_calendar", "office365_video_calendar" }

\* reference.type.includes("_video") / includes("_calendar")
IsVideo(reference) == reference.type \in VideoTypes
IsCalendar(reference) == reference.type \in CalendarTypes

\* A reference without credential, a video meeting, a calendar event and a
\* reference whose type includes both "_video" and "_calendar".
NoCredentialReference == [credentialId |-> NoId, type |-> "daily_video"]
VideoReference == [credentialId |-> 1, type |-> "zoom_video"]
CalendarReference == [credentialId |-> 2, type |-> "google_calendar"]
VideoCalendarReference == [credentialId |-> 3, type |-> "office365_video_calendar"]

\* bookingToDelete.references
ReferenceLists ==
  { << >>,
    << NoCredentialReference >>,
    << VideoReference >>,
    << CalendarReference >>,
    << VideoCalendarReference >>,
    << VideoReference, VideoReference >>,
    << VideoReference, CalendarReference >>,
    << CalendarReference, NoCredentialReference, VideoReference >> }

WorkflowReminderLists ==
  { << >>,
    << [id |-> 1, seatReferenceId |-> "s1"], [id |-> 2, seatReferenceId |-> "s2"] >> }

WebhookLists == { [i \in 1..n |-> [id |-> i]] : n \in 0..MaxWebhooks }

\* What the host does with a rejection that has no handler: end the process
\* (the default of Node), or hand it to a listener and go on.
UnhandledRejectionModes == { "throw", "listener" }

Requests ==
  [ body : Bodies,
    bookingToDelete :
      [ attendees : AttendeeLists, userId : {NoId, 1},
        seatsReferences : SeatsReferenceLists, references : ReferenceLists,
        workflowReminders : WorkflowReminderLists ],
    webhooks : WebhookLists,
    unhandledRejections : UnhandledRejectionModes ]

\* bookingCancelAttendeeSeatSchema.safeParse(body).success
SeatSchemaOk(body) == "seatReferenceUid" \in DOMAIN body

\* !bookingToDelete?.attendees.length || bookingToDelete.attendees.length < 2
TooFewAttendees(booking) == Len(booking.attendees) = 0 \/ Len(booking.attendees) < 2

\* !bookingToDelete.userId, disregarded.
UserIdNotRequired(booking) == FALSE

\* !bookingToDelete.userId
NoUserId(booking) == booking.userId = NoId

\* seatsReferences.find((reference) => reference.referenceUid === uid)
FindSeatReference(refs, uid) ==
  IF \E i \in 1..Len(refs) : refs[i].referenceUid = uid
  THEN refs[CHOOSE i \in 1..Len(refs) :
              /\ refs[i].referenceUid = uid
              /\ \A j \in 1..(i - 1) : refs[j].referenceUid # uid]
  ELSE NoSeatReference

\* bookingToDelete.attendees.find((attendee) => attendee.id === id)
HasAttendee(booking, id) == \E i \in 1..Len(booking.attendees) : booking.attendees[i].id = id

\* Promise.all over promises in the given states.
PromiseAll(states) ==
  IF \E i \in 1..Len(states) : states[i] = "rejected" THEN "rejected"
  ELSE IF \A i \in 1..Len(states) : states[i] = "fulfilled" THEN "fulfilled"
  ELSE "pending"

States(ps) == [i \in 1..Len(ps) |-> ps[i].state]

\* try { await Promise.all(integrationsToUpdate) } catch (error) { }
Swallowed(result) == IF result = "rejected" THEN "fulfilled" ELSE result

\* sendPayload(...) with no catch attached.
Uncaught(result) == [state |-> result, logged |-> FALSE]

\* sendPayload(...).catch((e) => { logger.error(...) })
CaughtAndLogged(result) == [state |-> "fulfilled", logged |-> result = "rejected"]

\* A call that ended: returned undefined, threw an HttpError, threw what an
\* awaited call threw, or returned { success: true }.
ReturnedNothing == [kind |-> "void", statusCode |-> 0, message |-> "", at |-> "guards"]
HttpError(code, msg) == [kind |-> "error", statusCode |-> code, message |-> msg, at |-> "guards"]
Propagated(step) == [kind |-> "threw", statusCode |-> 0, message |-> "", at |-> step]
Success == [kind |-> "success", statusCode |-> 0, message |-> "", at |-> "return"]

SeatInit ==
  /\ OnboardingNotRunning
  /\ FilterIdle
  /\ AvailabilityIdle
  /\ seatReq \in Requests
  /\ SeatNotStarted

Booking == seatReq.bookingToDelete

seatLocals ==
  << seatReference, deletedSeats, deletedAttendees, deletes, statusCode, refIdx,
     integrationsToUpdate, emailsSent, promises, completionOrder, loggedErrors,
     remindersDeleted >>

\* The call ends with outcome o; nothing else changes.
SeatEnd(o) ==
  /\ seatPc' = "done"
  /\ seatOutcome' = o

\* Lines 628-657: the guards and, when they pass, the two deletes, which are
\* issued in the same turn, up to the first await.
CheckGuards ==
  /\ seatPc = "start"
  /\ UNCHANGED << onboardingVars, filterVars, availabilityVars, seatReq >>
  /\ UNCHANGED << deletedSeats, deletedAttendees, statusCode, refIdx,
                  integrationsToUpdate, emailsSent, promises, completionOrder,
                  loggedErrors, remindersDeleted >>
  /\ IF ~SeatSchemaOk(seatReq.body) \/ TooFewAttendees(Booking)
     THEN SeatEnd(ReturnedNothing) /\ UNCHANGED << seatReference, deletes >>
     ELSE IF NoUserId(Booking)
     THEN SeatEnd(HttpError(400, "User not found")) /\ UNCHANGED << seatReference, deletes >>
     ELSE LET ref == FindSeatReference(Booking.seatsReferences, seatReq.body.seatReferenceUid)
          IN IF ref = NoSeatReference
             THEN /\ SeatEnd(HttpError(400, "User not a part of this booking"))
                  /\ UNCHANGED << seatReference, deletes >>
             ELSE /\ seatReference' = ref
                  /\ deletes' = [d \in DOMAIN deletes |-> "pending"]
                  /\ seatPc' = "delete"
                  /\ UNCHANGED seatOutcome

\* The first reference from position i on that has a credentialId: the loop
\* passes the others without awaiting anything.
NextWithCredential(refs, i) ==
  IF \E j \in i..Len(refs) : refs[j].credentialId # NoId
  THEN CHOOSE j \in i..Len(refs) :
         /\ refs[j].credentialId # NoId
         /\ \A k \in i..(j - 1) : refs[k].credentialId = NoId
  ELSE Len(refs) + 1

\* The loop goes on with the reference at position i: up to the next
\* findUnique, or out of the loop to Promise.all(integrationsToUpdate).
LoopFrom(i) ==
  LET j == NextWithCredential(Booking.references, i)
  IN /\ refIdx' = j - 1
     /\ seatPc' = IF j > Len(Booking.references) THEN "awaitIntegrations" ELSE "findUnique"

\* Lines 715-747: evt.attendees, the payload, and one sendPayload per webhook,
\* all issued before any of them is awaited.
SendPayloads(attendeeFound) ==
  LET payload ==
        [ status |-> "CANCELLED",
          attendees |-> IF attendeeFound THEN << seatReference.attendeeId >> ELSE << >> ]
  IN [ i \in 1..Len(seatReq.webhooks) |->
         [ webhook |-> seatReq.webhooks[i].id, payload |-> payload, state |-> "pending" ] ]

\* Lines 646-657: one of the two deletes settles, in a turn of its own: the
\* row is gone or the delete has failed. The other delete has been issued
\* all the same and settles on its own, also after the handler has ended.
SettleDelete ==
  /\ UNCHANGED << onboardingVars, filterVars, availabilityVars, seatReq >>
  /\ UNCHANGED << seatPc, seatOutcome, seatReference, statusCode, refIdx,
                  integrationsToUpdate, emailsSent, promises, completionOrder,
                  loggedErrors, remindersDeleted >>
  /\ \E d \in DOMAIN deletes, ok \in BOOLEAN :
       /\ deletes[d] = "pending"
       /\ deletes' = [deletes EXCEPT ![d] = IF ok THEN "fulfilled" ELSE "rejected"]
       /\ deletedSeats' =
            IF ok /\ d = "bookingSeat"
              THEN deletedSeats \cup {seatReq.body.seatReferenceUid} ELSE deletedSeats
       /\ deletedAttendees' =
            IF ok /\ d = "attendee"
              THEN deletedAttendees \cup {seatReference.attendeeId} ELSE deletedAttendees

\* Lines 646-667: Promise.all of the two deletes has settled, as rejected
\* with the first delete that failed or as fulfilled once both rows are
\* gone; then req.statusCode and the lookup of the attendee. With the
\* attendee the handler enters the loop over the references; without, it
\* runs on to the webhooks with no await in between.
AwaitDeletes ==
  /\ seatPc = "delete"
  /\ PromiseAll(<< deletes["bookingSeat"], deletes["attendee"] >>) # "pending"
  /\ UNCHANGED << onboardingVars, filterVars, availabilityVars, seatReq >>
  /\ UNCHANGED << seatReference, deletedSeats, deletedAttendees, deletes,
                  integrationsToUpdate, emailsSent, completionOrder, loggedErrors,
                  remindersDeleted >>
  /\ IF PromiseAll(<< deletes["bookingSeat"], deletes["attendee"] >>) = "fulfilled"
     THEN /\ statusCode' = 200
          /\ IF HasAttendee(Booking, seatReference.attendeeId)
             THEN LoopFrom(1) /\ UNCHANGED promises
             ELSE /\ promises' = SendPayloads(FALSE)
                  /\ seatPc' = "awaitWebhooks"
                  /\ UNCHANGED refIdx
          /\ UNCHANGED seatOutcome
     ELSE /\ SeatEnd(Propagated("delete"))
          /\ UNCHANGED << statusCode, refIdx, promises >>

\* The promise of an integration update, as pushed by the loop.
Pushed(kind) == [kind |-> kind, reference |-> refIdx + 1, state |-> "pending"]

\* Lines 669-684: prisma.credential.findUnique for the reference returns or
\* throws; with a credential, updateMeeting is issued for a video reference
\* and getCalendar is awaited for a calendar reference.
FindCredential ==
  /\ seatPc = "findUnique"
  /\ UNCHANGED << onboardingVars, filterVars, availabilityVars, seatReq >>
  /\ UNCHANGED << seatReference, deletedSeats, deletedAttendees, deletes, statusCode,
                  emailsSent, promises, completionOrder, loggedErrors,
                  remindersDeleted >>
  /\ LET reference == Booking.references[refIdx + 1]
     IN \E credential \in { "found", "null", "throws" } :
          CASE credential = "throws" ->
                 /\ SeatEnd(Propagated("findUnique"))
                 /\ UNCHANGED << refIdx, integrationsToUpdate >>
            [] credential = "null" ->
                 /\ LoopFrom(refIdx + 2)
                 /\ UNCHANGED << seatOutcome, integrationsToUpdate >>
            [] credential = "found" ->
                 /\ integrationsToUpdate' =
                      IF IsVideo(reference)
                      THEN Append(integrationsToUpdate, Pushed("updateMeeting"))
                      ELSE integrationsToUpdate
                 /\ IF IsCalendar(reference)
                    THEN seatPc' = "getCalendar" /\ UNCHANGED refIdx
                    ELSE LoopFrom(refIdx + 2)
                 /\ UNCHANGED seatOutcome

\* Lines 685-694: getCalendar(credential) returns or throws; with a calendar,
\* calendar.updateEvent is issued.
GetCalendar ==
  /\ seatPc = "getCalendar"
  /\ UNCHANGED << onboardingVars, filterVars, availabilityVars, seatReq >>
  /\ UNCHANGED << seatReference, deletedSeats, deletedAttendees, deletes, statusCode,
                  emailsSent, promises, completionOrder, loggedErrors,
                  remindersDeleted >>
  /\ \E calendar \in { "found", "null", "throws" } :
       CASE calendar = "throws" ->
              /\ SeatEnd(Propagated("getCalendar"))
              /\ UNCHANGED << refIdx, integrationsToUpdate >>
         [] calendar = "null" ->
              /\ LoopFrom(refIdx + 2)
              /\ UNCHANGED << seatOutcome, integrationsToUpdate >>
         [] calendar = "found" ->
              /\ integrationsToUpdate' = Append(integrationsToUpdate, Pushed("updateEvent"))
              /\ LoopFrom(refIdx + 2)
              /\ UNCHANGED seatOutcome

\* Promise.all(integrationsToUpdate) of line 697 has taken the promises over:
\* from then on a rejection of any of them has a handler.
Attached ==
  /\ seatPc \notin { "findUnique", "getCalendar" }
  /\ seatOutcome.at \notin { "findUnique", "getCalendar" }

\* updateMeeting / calendar.updateEvent of one pushed promise completes or
\* fails, at any time after it was issued. A rejection that no handler is
\* attached to is an unhandled rejection: it ends the process unless the host
\* listens for it.
SettleIntegration ==
  /\ seatPc # "exited"
  /\ UNCHANGED << onboardingVars, filterVars, availabilityVars, seatReq >>
  /\ UNCHANGED << seatOutcome, seatReference, deletedSeats, deletedAttendees, deletes,
                  statusCode, refIdx, emailsSent, promises, completionOrder,
                  loggedErrors, remindersDeleted >>
  /\ \E i \in 1..Len(integrationsToUpdate), result \in { "fulfilled", "rejected" } :
       /\ integrationsToUpdate[i].state = "pending"
       /\ integrationsToUpdate' = [integrationsToUpdate EXCEPT ![i].state = result]
       /\ seatPc' = IF result = "rejected" /\ ~Attached
                       /\ seatReq.unhandledRejections = "throw"
                    THEN "exited" ELSE seatPc

\* Lines 696-701: Promise.all(integrationsToUpdate) has settled.
AwaitIntegrations ==
  /\ seatPc = "awaitIntegrations"
  /\ PromiseAll(States(integrationsToUpdate)) # "pending"
  /\ UNCHANGED << onboardingVars, filterVars, availabilityVars, seatReq, seatLocals >>
  /\ IF Swallowed(PromiseAll(States(integrationsToUpdate))) = "rejected"
     THEN SeatEnd(Propagated("integrations"))
     ELSE seatPc' = "getTranslation" /\ UNCHANGED seatOutcome

\* Line 703: await getTranslation(attendee.locale ?? "en", "common").
TranslateForEmails ==
  /\ seatPc = "getTranslation"
  /\ UNCHANGED << onboardingVars, filterVars, availabilityVars, seatReq, seatLocals >>
  /\ \E ok \in BOOLEAN :
       IF ok
       THEN seatPc' = "emails" /\ UNCHANGED seatOutcome
       ELSE SeatEnd(Propagated("getTranslation"))

\* Lines 705-712: sendCancelledSeatEmailsAndSMS for the attendee of the seat.
SendEmails ==
  /\ seatPc = "emails"
  /\ UNCHANGED << onboardingVars, filterVars, availabilityVars, seatReq >>
  /\ UNCHANGED << seatReference, deletedSeats, deletedAttendees, deletes, statusCode, refIdx,
                  integrationsToUpdate, promises, completionOrder, loggedErrors,
                  remindersDeleted >>
  /\ \E ok \in BOOLEAN :
       IF ok
       THEN /\ emailsSent' = emailsSent \cup {seatReference.attendeeId}
            /\ seatPc' = "webhooks"
            /\ UNCHANGED seatOutcome
       ELSE /\ SeatEnd(Propagated("sendEmails"))
            /\ UNCHANGED emailsSent

\* Lines 715-747 with the attendee: the getTranslation of line 720 returns
\* or throws, then the payload goes out to the webhooks.
StartWebhooks ==
  /\ seatPc = "webhooks"
  /\ UNCHANGED << onboardingVars, filterVars, availabilityVars, seatReq >>
  /\ UNCHANGED << seatReference, deletedSeats, deletedAttendees, deletes,
                  statusCode, refIdx, integrationsToUpdate, emailsSent,
                  completionOrder, loggedErrors, remindersDeleted >>
  /\ \E ok \in BOOLEAN :
       IF ok
       THEN /\ promises' = SendPayloads(TRUE)
            /\ seatPc' = "awaitWebhooks"
            /\ UNCHANGED seatOutcome
       ELSE /\ SeatEnd(Propagated("getTranslationForPayload"))
            /\ UNCHANGED promises

\* The delivery to one webhook completes or fails, in any order, and the
\* catch attached to it runs.
SettleWebhook ==
  /\ seatPc # "exited"
  /\ UNCHANGED << onboardingVars, filterVars, availabilityVars, seatReq >>
  /\ UNCHANGED << seatPc, seatOutcome, seatReference, deletedSeats, deletedAttendees, deletes,
                  statusCode, refIdx, integrationsToUpdate, emailsSent,
                  remindersDeleted >>
  /\ \E i \in 1..Len(promises), result \in { "fulfilled", "rejected" } :
       /\ promises[i].state = "pending"
       /\ promises' = [promises EXCEPT ![i].state = CaughtAndLogged(result).state]
       /\ loggedErrors' =
            IF CaughtAndLogged(result).logged
            THEN loggedErrors \cup {promises[i].webhook} ELSE loggedErrors
       /\ completionOrder' = Append(completionOrder, promises[i].webhook)

\* Line 748: await Promise.all(promises).
AwaitWebhooks ==
  /\ seatPc = "awaitWebhooks"
  /\ PromiseAll(States(promises)) # "pending"
  /\ UNCHANGED << onboardingVars, filterVars, availabilityVars, seatReq, seatLocals >>
  /\ IF PromiseAll(States(promises)) = "rejected"
     THEN SeatEnd(Propagated("webhooks"))
     ELSE seatPc' = "reminders" /\ UNCHANGED seatOutcome

\* workflowReminders.filter((reminder) => reminder.seatReferenceId === uid)
WorkflowRemindersForAttendee(booking, uid) ==
  { booking.workflowReminders[i].id :
      i \in { j \in 1..Len(booking.workflowReminders) :
                booking.workflowReminders[j].seatReferenceId = uid } }

\* Lines 750-756: deleteAllWorkflowReminders and the return.
DeleteReminders ==
  /\ seatPc = "reminders"
  /\ UNCHANGED << onboardingVars, filterVars, availabilityVars, seatReq >>
  /\ UNCHANGED << seatReference, deletedSeats, deletedAttendees, deletes, statusCode, refIdx,
                  integrationsToUpdate, emailsSent, promises, completionOrder,
                  loggedErrors >>
  /\ \E ok \in BOOLEAN :
       IF ok
       THEN /\ remindersDeleted' =
                 remindersDeleted \cup
                   WorkflowRemindersForAttendee(Booking, seatReq.body.seatReferenceUid)
            /\ SeatEnd(Success)
       ELSE /\ SeatEnd(Propagated("deleteReminders"))
            /\ UNCHANGED remindersDeleted

SeatNext ==
  \/ CheckGuards
  \/ SettleDelete
  \/ AwaitDeletes
  \/ FindCredential
  \/ GetCalendar
  \/ SettleIntegration
  \/ AwaitIntegrations
  \/ TranslateForEmails
  \/ SendEmails
  \/ StartWebhooks
  \/ SettleWebhook
  \/ AwaitWebhooks
  \/ DeleteReminders

SeatSpec == SeatInit /\ [][SeatNext]_vars

\* ------------------------------------------- getMemberAvailabilityHandler
\* The tRPC handler that returns the availability of one member of a team
\* to a caller of that team. The membership rows do not change while the
\* one request is served; every awaited call completes or throws.

\* Teams explored.
MaxTeams == 2

TeamIds == 1..MaxTeams

\* Users; user 2 has no username, and no user has the last id asked for.
Usernames == << "alice", "", "carol" >>
Users == 1..Len(Usernames)
MemberIdsAsked == 1..(Len(Usernames) + 1)

\* isTeamMember found no membership: a falsy result.
NoTeamMembership == [teamId |-> NoId, userId |-> NoId]

\* isTeamMember(userId, teamId): the membership of the user in the team.
IsTeamMember(rows, userId, teamId) ==
  IF [teamId |-> teamId, userId |-> userId] \in rows
  THEN [teamId |-> teamId, userId |-> userId]
  ELSE NoTeamMembership

\* MembershipRepository.findByTeamIdForAvailability({ teamId }): the rows of
\* the team, each with its user.
FindByTeamIdForAvailability(rows, teamId) ==
  { [userId |-> r.userId, user |-> [id |-> r.userId, username |-> Usernames[r.userId]]] :
      r \in { x \in rows : x.teamId = teamId } }

\* members?.find((m) => m.userId === input.memberId)
FindMember(ms, memberId) ==
  IF \E m \in ms : m.userId = memberId
  THEN CHOOSE m \in ms : m.userId = memberId
  ELSE NoMember

\* The membership check, disregarded.
AnyCaller(t) == FALSE

\* !team
NotTeamMember(t) == t = NoTeamMembership

\* !member
MemberNotFound(m) == m = NoMember

\* !member.user.username
NoUsername(m) == m.user.username = ""

TRPCError(code, msg) == [kind |-> "error", code |-> code, message |-> msg, at |-> "guards"]
AvPropagated(step) == [kind |-> "threw", code |-> "", message |-> "", at |-> step]
AvReturned == [kind |-> "returned", code |-> "", message |-> "", at |-> "return"]

AvailabilityInit ==
  /\ OnboardingNotRunning
  /\ FilterIdle
  /\ SeatIdle
  /\ avInput \in [userId : Users, teamId : TeamIds, memberId : MemberIdsAsked]
  /\ teamMemberships \in SUBSET [teamId : TeamIds, userId : Users]
  /\ AvailabilityNotStarted

notAvailabilityVars == << onboardingVars, filterVars, seatVars >>

\* The call ends with outcome o.
AvEnd(o) ==
  /\ avPc' = "done"
  /\ avOutcome' = o

\* Lines 19-20: isTeamMember and the UNAUTHORIZED guard.
CheckTeamMember ==
  /\ avPc = "start"
  /\ UNCHANGED << notAvailabilityVars, avInput, teamMemberships >>
  /\ UNCHANGED << members, listFetches, member, user, availabilityCalls >>
  /\ \E ok \in BOOLEAN :
       IF ~ok
       THEN AvEnd(AvPropagated("isTeamMember")) /\ UNCHANGED team
       ELSE /\ team' = IsTeamMember(teamMemberships, avInput.userId, avInput.teamId)
            /\ IF NotTeamMember(team')
               THEN AvEnd(TRPCError("UNAUTHORIZED", ""))
               ELSE avPc' = "members" /\ UNCHANGED avOutcome

\* Lines 23-29: the members of the team, the requested member among them,
\* and the NOT_FOUND and BAD_REQUEST guards.
FindMembers ==
  /\ avPc = "members"
  /\ UNCHANGED << notAvailabilityVars, avInput, teamMemberships >>
  /\ UNCHANGED << team, user, availabilityCalls >>
  /\ \E ok \in BOOLEAN :
       IF ~ok
       THEN /\ AvEnd(AvPropagated("findByTeamIdForAvailability"))
            /\ listFetches' = Append(listFetches, avInput.teamId)
            /\ UNCHANGED << members, member >>
       ELSE /\ listFetches' = Append(listFetches, avInput.teamId)
            /\ members' = FindByTeamIdForAvailability(teamMemberships, avInput.teamId)
            /\ member' = FindMember(members', avInput.memberId)
            /\ IF MemberNotFound(member')
               THEN AvEnd(TRPCError("NOT_FOUND", "Member not found"))
               ELSE IF NoUsername(member')
               THEN AvEnd(TRPCError("BAD_REQUEST", "Member doesn't have a username"))
               ELSE avPc' = "enrich" /\ UNCHANGED avOutcome

\* Lines 30-32: enrichUserWithDwdCredentialsWithoutOrgId({ user: member.user }).
EnrichUser ==
  /\ avPc = "enrich"
  /\ UNCHANGED << notAvailabilityVars, avInput, teamMemberships >>
  /\ UNCHANGED << team, members, listFetches, member, availabilityCalls >>
  /\ \E ok \in BOOLEAN :
       IF ok
       THEN /\ user' = member.user
            /\ avPc' = "availability"
            /\ UNCHANGED avOutcome
       ELSE AvEnd(AvPropagated("enrichUser")) /\ UNCHANGED user

\* Lines 35-44: getUserAvailability for the username and the enriched user.
GetUserAvailability ==
  /\ avPc = "availability"
  /\ UNCHANGED << notAvailabilityVars, avInput, teamMemberships >>
  /\ UNCHANGED << team, members, listFetches, member, user >>
  /\ availabilityCalls' =
       Append(availabilityCalls,
              [ username |-> member.user.username, user |-> user,
                returnDateOverrides |-> TRUE, bypassBusyCalendarTimes |-> FALSE ])
  /\ \E ok \in BOOLEAN :
       AvEnd(IF ok THEN AvReturned ELSE AvPropagated("getUserAvailability"))

AvailabilityNext ==
  \/ CheckTeamMember
  \/ FindMembers
  \/ EnrichUser
  \/ GetUserAvailability

AvailabilitySpec == AvailabilityInit /\ [][AvailabilityNext]_vars

\* ------------------------------------------------------------ properties
\* Steps whose completed work a later invocation is said not to repeat.
ResumableSteps == { "createOrg", "sendEmail", "seedAvailability", "invite", "createTeams" }

\* Membership rows of one email, over all organizations of this onboarding.
RowsOf(e) == { i \in 1..Len(memberships) : memberships[i].email = e }

InvitedEmails ==
  { onboarding.invitedMembers[i].email.value :
      i \in { j \in 1..Len(onboarding.invitedMembers) :
                "email" \in DOMAIN onboarding.invitedMembers[j] } }

\* C1: for one onboarding record, after any sequence of invocations (aborted
\* ones included) at most one organization has been created.
C1_AtMostOneOrganization == Len(orgs) <= 1

\* C2: an invocation whose lookup finds the organization creates none, sends
\* no creation email and seeds no availability; hence two invocations with
\* the same onboarding record send the creation email at most once.
C2_NoRepeatWhenFoundAndOneEmail ==
  /\ found =>
       /\ Len(orgs) = Len(atStart.orgs)
       /\ tried["createOrg"] = atStart.tried["createOrg"]
       /\ tried["sendEmail"] = atStart.tried["sendEmail"]
       /\ tried["seedAvailability"] = atStart.tried["seedAvailability"]
  /\ invocations <= 2 => done["sendEmail"] <= 1

C4_CompletedStepsNotRepeated ==
  \A s \in ResumableSteps :
    atStart.done[s] >= 1 => tried[s] = atStart.tried[s]

\* What holds of the returned organization when an invocation completes.
Completed ==
  /\ pc = "done"
  /\ organization.id \in 1..Len(orgs)
  /\ orgs[organization.id].slug = onboarding.slug
  /\ \A e \in InvitedEmails :
       \E i \in 1..Len(memberships) :
         memberships[i] = [teamId |-> organization.id, email |-> e]
  /\ OwnerTeamId \in TeamsToMove(onboarding.teams) => teamParent = organization.id
  /\ \A n \in TeamsToCreate(onboarding.teams) :
       [orgId |-> organization.id, name |-> n] \in createdTeams

\* The owner of the record exists and its payloads pass their schemas.
ValidRecord ==
  /\ ownerExists
  /\ MembersSchemaOk(onboarding.invitedMembers)
  /\ TeamsSchemaOk(onboarding.teams)

\* C5 as claimed: when the external calls succeed, invocation for an
\* onboarding record completes without error (no invocation ends in an error
\* while no external call has failed), and whenever an invocation completes
\* the organization exists with the onboarding slug, the members are invited
\* and the teams created or moved.
C5_CompletesForEveryRecord ==
  /\ pc = "done" => Completed
  /\ failures = 0 => pc # "failed"

\* C5 as amended: the same of a record whose owner exists and whose payloads
\* pass their schemas: no invocation ends in an error while no external call
\* has failed, and with the webhook redelivering more often than calls fail
\* an invocation eventually completes.
C5_EventuallyCompletes ==
  /\ [](pc = "done" => Completed)
  /\ []((ValidRecord /\ failures = 0) => pc # "failed")
  /\ (ValidRecord => <>Completed)

C5_Witness ==
  /\ Completed
  /\ failures = MaxFailures
  /\ Len(orgs[organization.id].slug) > 0
  /\ done["setSlug"] = 1
  /\ Len(memberships) > 0
  /\ teamParent = organization.id

\* C6: after an invocation that returns successfully the persisted onboarding
\* record carries the id of the returned organization.
C6_OnboardingCarriesOrganizationId ==
  pc = "done" => onboarding.organizationId = organization.id

\* C7: for a platform onboarding (isPlatform = true) the organization is
\* created without calling sendOrganizationCreationEmail.
C7_NoEmailForPlatform ==
  onboarding.isPlatform => tried["sendEmail"] = 0

\* C8: setSlug is called only after createOrMoveTeamsToOrganization returned
\* in the same invocation and only on an organization whose persisted slug is
\* still empty, which it sets to the onboarding slug; a slug changes in no
\* other way.
C8_SetSlugOnlyDeferredAfterTeams ==
  [][ /\ tried'["setSlug"] # tried["setSlug"] =>
           /\ teamsReturned
           /\ organization.id \in 1..Len(orgs)
           /\ orgs[organization.id].slug = NoSlug
           /\ done'["setSlug"] # done["setSlug"] =>
                orgs'[organization.id].slug = onboarding.slug
      /\ \A i \in 1..Len(orgs) :
           orgs'[i].slug # orgs[i].slug =>
             /\ done'["setSlug"] = done["setSlug"] + 1
             /\ i = organization.id
    ]_vars

C8_Witness ==
  /\ pc = "done"
  /\ done["setSlug"] = 1
  /\ ~canSetSlug
  /\ ~found
  /\ orgs[organization.id].slug = OnboardingSlug
  /\ organization.slug = NoSlug

\* C9: with no user for the owner email every invocation fails at the owner
\* lookup: no domain, no organization, no email, no invitation, no team, and
\* the onboarding record is as it was.
C9_NoOwnerNothingHappens ==
  ~ownerExists =>
    /\ pc \in {"idle", "findOwner", "failed"}
    /\ pc = "failed" => failedAt = "findOwner"
    /\ \A s \in Steps : tried[s] = 0
    /\ ~domainExists
    /\ orgs = << >>
    /\ memberships = << >>
    /\ createdTeams = {}
    /\ teamParent = NoId
    /\ onboarding.organizationId = NoId

C9_Witness ==
  /\ ~ownerExists
  /\ pc = "failed"
  /\ failedAt = "findOwner"
  /\ invocations = 2

AfterSetupDomain ==
  \/ pc \in {"translateOrg", "lookup", "parse", "done"} \cup (Steps \ {"setupDomain"})
  \/ pc = "failed" /\ failedAt \notin {"findOwner", "translateOwner", "setupDomain"}

\* C10: in every invocation setupDomain has completed before the organization
\* is looked up or created, also when the domain exists already; an invocation
\* in which setupDomain throws creates no organization and changes nothing
\* persisted.
C10_DomainFirst ==
  /\ AfterSetupDomain =>
       /\ done["setupDomain"] = atStart.done["setupDomain"] + 1
       /\ domainExists
  /\ (pc = "setupDomain" \/ (pc = "failed" /\ failedAt = "setupDomain")) =>
       /\ orgs = atStart.orgs
       /\ onboarding = atStart.onboarding
       /\ memberships = atStart.memberships
       /\ teamParent = atStart.teamParent
       /\ createdTeams = atStart.createdTeams
       /\ done = atStart.done
       /\ \A s \in Steps \ {"setupDomain"} : tried[s] = atStart.tried[s]

C10_Witness ==
  /\ invocations >= 2
  /\ atStart.domainExists
  /\ Len(atStart.orgs) = 1
  /\ pc = "failed"
  /\ failedAt = "setupDomain"

\* ------------------------------------------------ properties of the filter
Called == filterCalls >= 1
Enabled == maxLeadThreshold # NullThreshold
Keys == DOMAIN perUserData.bookingsCount
Retained(u) == \E i \in 1..Len(filterResult.filteredUserIds) : filterResult.filteredUserIds[i] = u

\* C11: with maxLeadThreshold = null the filter returns the input hosts
\* unchanged, the empty list included, and never calls the ranking function.
C11_NullThresholdReturnsInput ==
  /\ maxLeadThreshold = NullThreshold => filterPending = {} /\ filterCalls = filterIssued
  /\ (Called /\ maxLeadThreshold = NullThreshold) =>
       /\ filterResult.kind = "ok"
       /\ filterResult.hosts = filterResult.input
       /\ filterResult.hosts = hosts
       /\ filterResult.rankingCalls = 0

C11_Witness ==
  /\ Called
  /\ maxLeadThreshold = NullThreshold
  /\ Len(hosts) = 2
  /\ filterResult.hosts = hosts
  /\ eventType.isRRWeightsEnabled
  /\ perUserData.weights.isNull

\* The host's negated shortfall against maxLeadThreshold * weight / totalWeight,
\* with totalWeight the sum of all weights.
OverLead(u) ==
  (-perUserData.bookingShortfalls.map[u]) * SumValues(perUserData.weights.map)
    > maxLeadThreshold * perUserData.weights.map[u]

\* C12: weighted policy: a host is excluded exactly when its negated shortfall
\* is strictly greater than maxLeadThreshold * (weight / totalWeight); one
\* whose negated shortfall equals it is retained (shortfall -5 against an
\* allowed lead of 3 is excluded, shortfall -2 is retained).
C12_WeightedPolicy ==
  /\ (Called /\ Enabled /\ eventType.isRRWeightsEnabled /\ filterResult.kind = "ok") =>
       \A u \in Keys : Retained(u) <=> ~OverLead(u)
  /\ (/\ Called /\ eventType.isRRWeightsEnabled /\ filterResult.kind = "ok"
      /\ maxLeadThreshold = 3 /\ Keys = {1}) =>
       /\ perUserData.bookingShortfalls.map[1] = -5 => ~Retained(1)
       /\ perUserData.bookingShortfalls.map[1] = -2 => Retained(1)

\* The smallest booking count over all users of the ranking.
IsMinBookings(m) ==
  /\ \E u \in Keys : perUserData.bookingsCount[u] = m
  /\ \A u \in Keys : m <= perUserData.bookingsCount[u]

\* C13: unweighted policy: a host is retained exactly when its booking count
\* is at most minBookings + maxLeadThreshold, so the counts of two retained
\* hosts differ by at most maxLeadThreshold (counts 2, 5, 8 with threshold 3
\* retain the first two users and exclude the third).
C13_UnweightedPolicy ==
  (Called /\ Enabled /\ ~eventType.isRRWeightsEnabled /\ filterResult.kind = "ok") =>
    /\ \A u \in Keys : \A m \in BookingCounts :
         IsMinBookings(m) =>
           (Retained(u) <=> perUserData.bookingsCount[u] <= m + maxLeadThreshold)
    /\ \A u, v \in Keys :
         Retained(u) /\ Retained(v) =>
           perUserData.bookingsCount[u] - perUserData.bookingsCount[v] <= maxLeadThreshold
    /\ (maxLeadThreshold = 3 /\ perUserData.bookingsCount = <<2, 5, 8>>) =>
         filterResult.filteredUserIds = <<1, 2>>

C13_Witness ==
  /\ Called /\ ~eventType.isRRWeightsEnabled /\ filterResult.kind = "ok"
  /\ maxLeadThreshold = 3
  /\ perUserData.bookingsCount = <<2, 5, 8>>
  /\ hosts = << Host(1), Host(2), Host(3) >>
  /\ filterResult.hosts = << Host(1), Host(2) >>

\* The last call that ended got the ranking it asked for: it neither failed
\* on an empty host list before asking nor had the ranking function reject.
RankingResolved == filterResult.error \notin { TypeError, RankingError }

\* C14: with weights enabled and a threshold, a null calibrations, weights or
\* bookingShortfalls makes the call fail and return no hosts; with weights
\* disabled the same nulls cause no error.
C14_NullRankingData ==
  (/\ Called /\ Enabled
   /\ \E f \in {"calibrations", "weights", "bookingShortfalls"} : perUserData[f].isNull) =>
    /\ eventType.isRRWeightsEnabled =>
         /\ filterResult.kind = "error"
         /\ filterResult.hosts = << >>
         /\ RankingResolved => filterResult.error = NullDataError
    /\ ~eventType.isRRWeightsEnabled =>
         /\ filterResult.error # NullDataError
         /\ RankingResolved => filterResult.kind = "ok"

C14_Witness ==
  /\ Called /\ Enabled /\ eventType.isRRWeightsEnabled
  /\ perUserData.calibrations.isNull
  /\ ~perUserData.weights.isNull
  /\ ~perUserData.bookingShortfalls.isNull
  /\ Len(hosts) = 2
  /\ filterResult.error = NullDataError
  /\ filterResult.call = 2
  /\ firstResult.error = RankingError

\* A user id survives the policy: it is ranked and within its lead.
Survives(u) ==
  /\ u \in Keys
  /\ IF eventType.isRRWeightsEnabled
       THEN ~ExceedsAllowedLead(perUserData.bookingShortfalls.map[u],
                                AllowedLead(maxLeadThreshold, perUserData.weights.map[u],
                                            SumValues(perUserData.weights.map)))
       ELSE \A v \in Keys :
              perUserData.bookingsCount[u] <= perUserData.bookingsCount[v] + maxLeadThreshold

\* sub is hs with some elements left out, the order kept.
RECURSIVE IsSubsequence(_, _)
IsSubsequence(sub, hs) ==
  IF sub = << >> THEN TRUE
  ELSE IF hs = << >> THEN FALSE
  ELSE IF Head(sub) = Head(hs) THEN IsSubsequence(Tail(sub), Tail(hs))
  ELSE IsSubsequence(sub, Tail(hs))

InResult(h) == \E i \in 1..Len(filterResult.hosts) : filterResult.hosts[i] = h

\* C15: for a non-null threshold the result is a subsequence of the input
\* hosts holding exactly the hosts whose user id survived the policy (a host
\* whose id the ranking does not list is left out), in input order. The
\* input is the array the caller passed, as it is when the call reads it
\* after the ranking; it is the list of the time of the call unless the
\* caller has changed the array meanwhile.
C15_ResultIsSubsequence ==
  (Called /\ Enabled /\ filterResult.kind = "ok") =>
    /\ IsSubsequence(filterResult.hosts, filterResult.read)
    /\ \A i \in 1..Len(filterResult.read) :
         InResult(filterResult.read[i]) <=> Survives(filterResult.read[i].user.id)
    /\ ~hostsChanged => filterResult.read = filterResult.input

C15_Witness ==
  /\ Called /\ Enabled /\ filterResult.kind = "ok"
  /\ Len(hosts) = 3
  /\ Len(filterResult.hosts) = 2
  /\ filterResult.hosts[1].user.id > filterResult.hosts[2].user.id
  /\ \E i \in 1..3 : hosts[i].user.id \notin Keys

\* C16: the call consumes the lead threshold: a second call with the same
\* maxLeadThreshold, hosts and ranking data does not behave as the first.
C16_SecondCallDiffers ==
  (/\ filterCalls = 2 /\ filterResult.call = 2
   /\ filterResult.input = firstResult.input
   /\ filterResult.read = firstResult.read) =>
    [filterResult EXCEPT !.call = 1] # firstResult

\* C17: called with maxLeadThreshold = 0 the filter throws
\* MAX_LEAD_THRESHOLD_FALSY instead of returning a host list.
C17_ZeroThresholdThrows ==
  (Called /\ maxLeadThreshold = 0 /\ RankingResolved) =>
    /\ filterResult.kind = "error"
    /\ filterResult.error = MAX_LEAD_THRESHOLD_FALSY

\* ------------------------------------------------ cancelAttendeeSeat claims
\* An integration update pushed by the loop has failed.
IntegrationFailed ==
  \E i \in 1..Len(integrationsToUpdate) : integrationsToUpdate[i].state = "rejected"

\* Awaited calls of the handler that no try surrounds and no catch follows.
UnguardedCalls ==
  { "delete", "findUnique", "getCalendar", "getTranslation", "sendEmails",
    "getTranslationForPayload", "deleteReminders" }

\* Every subscribed webhook has had its delivery issued.
AllWebhooksAttempted ==
  /\ Len(promises) = Len(seatReq.webhooks)
  /\ \A i \in 1..Len(promises) : promises[i].webhook = seatReq.webhooks[i].id

\* Every delivery has settled.
AllWebhooksSettled ==
  { completionOrder[i] : i \in 1..Len(completionOrder) } =
    { promises[i].webhook : i \in 1..Len(promises) }

\* The reminders of the cancelled seat, and only those, are deleted.
SeatRemindersDeleted ==
  remindersDeleted =
    { seatReq.bookingToDelete.workflowReminders[i].id :
        i \in { j \in 1..Len(seatReq.bookingToDelete.workflowReminders) :
                  seatReq.bookingToDelete.workflowReminders[j].seatReferenceId
                    = seatReq.body.seatReferenceUid } }

\* C18: once the seat and the attendee are deleted, a failed calendar or video
\* integration update is never what ends the handler: a call in which an
\* update failed ends, unless one of the unguarded awaited calls throws, with
\* the cancellation email sent, every webhook delivery issued and settled,
\* the reminders of the seat deleted and { success: true } returned.
C18_IntegrationFailureSwallowed ==
  /\ seatOutcome.kind = "threw" => seatOutcome.at # "integrations"
  /\ (seatPc \in { "done", "exited" } /\ IntegrationFailed) =>
       \/ seatOutcome.kind = "threw" /\ seatOutcome.at \in UnguardedCalls
       \/ /\ seatOutcome = Success
          /\ deletedSeats = {seatReq.body.seatReferenceUid}
          /\ deletedAttendees = {seatReference.attendeeId}
          /\ emailsSent = {seatReference.attendeeId}
          /\ AllWebhooksAttempted
          /\ AllWebhooksSettled
          /\ SeatRemindersDeleted

\* C19: the payload goes to every subscribed webhook before any delivery is
\* awaited, and whichever deliveries fail, in whatever order they settle, the
\* failure is logged and never thrown: the handler goes on to delete the
\* reminders only after every delivery was issued and has settled, and ends
\* with success unless deleting the reminders throws.
C19_WebhookFanOut ==
  /\ seatOutcome.kind = "threw" => seatOutcome.at # "webhooks"
  /\ seatPc = "awaitWebhooks" =>
       /\ AllWebhooksAttempted
       /\ \A i \in 1..Len(promises) : promises[i].payload.status = "CANCELLED"
  /\ (seatPc = "reminders" \/ seatOutcome.at \in { "deleteReminders", "return" }) =>
       /\ AllWebhooksAttempted
       /\ AllWebhooksSettled
       /\ \A i \in 1..Len(promises) : promises[i].state = "fulfilled"
  /\ (seatPc = "done" /\ Len(promises) > 0) =>
       \/ seatOutcome = Success /\ SeatRemindersDeleted
       \/ seatOutcome.kind = "threw" /\ seatOutcome.at = "deleteReminders"
                                     /\ remindersDeleted = {}

\* Two webhooks, the first one's delivery failed and settled last; the
\* handler returned success with the reminder of the seat deleted.
C19_Witness ==
  /\ seatPc = "done"
  /\ seatOutcome = Success
  /\ Len(seatReq.webhooks) = 2
  /\ completionOrder = << 2, 1 >>
  /\ loggedErrors = {1}
  /\ remindersDeleted = {1}

\* All guards of the handler pass for the request.
GuardsPass ==
  /\ "seatReferenceUid" \in DOMAIN seatReq.body
  /\ Len(seatReq.bookingToDelete.attendees) >= 2
  /\ seatReq.bookingToDelete.userId # NoId
  /\ \E i \in 1..Len(seatReq.bookingToDelete.seatsReferences) :
       seatReq.bookingToDelete.seatsReferences[i].referenceUid
         = seatReq.body.seatReferenceUid

\* Nothing was deleted and nothing was sent.
NothingDone ==
  /\ deletedSeats = {}
  /\ deletedAttendees = {}
  /\ deletes = [d \in {"bookingSeat", "attendee"} |-> "none"]
  /\ statusCode = 0
  /\ integrationsToUpdate = << >>
  /\ emailsSent = {}
  /\ promises = << >>
  /\ remindersDeleted = {}

\* C20: rows are deleted and things are sent only for a request that passes
\* every guard. A body that fails the schema, or a booking with fewer than
\* two attendees, makes the handler return with nothing done; otherwise a
\* booking without userId, or with no seat reference of the requested uid,
\* makes it throw an HttpError of status 400, again with nothing done.
C20_GuardsBeforeDeletion ==
  /\ ~GuardsPass => NothingDone
  /\ (seatPc # "start" /\ ( \/ "seatReferenceUid" \notin DOMAIN seatReq.body
                             \/ Len(seatReq.bookingToDelete.attendees) < 2 )) =>
       seatPc = "done" /\ seatOutcome = ReturnedNothing
  /\ (seatPc # "start" /\ "seatReferenceUid" \in DOMAIN seatReq.body
                        /\ Len(seatReq.bookingToDelete.attendees) >= 2
                        /\ ~GuardsPass) =>
       /\ seatPc = "done"
       /\ seatOutcome.kind = "error"
       /\ seatOutcome.statusCode = 400
       /\ seatOutcome.message =
            IF seatReq.bookingToDelete.userId = NoId
            THEN "User not found" ELSE "User not a part of this booking"

\* A valid body and two attendees, but the booking has no userId: the
\* handler threw the 400 and touched nothing.
C20_Witness ==
  /\ seatPc = "done"
  /\ "seatReferenceUid" \in DOMAIN seatReq.body
  /\ Len(seatReq.bookingToDelete.attendees) = 2
  /\ seatReq.bookingToDelete.userId = NoId
  /\ Len(seatReq.bookingToDelete.seatsReferences) = 2
  /\ Len(seatReq.webhooks) = 2
  /\ seatOutcome = HttpError(400, "User not found")
  /\ NothingDone

\* ------------------------------------ getMemberAvailabilityHandler claim
\* The caller has a membership row in the requested team.
CallerInTeam ==
  [teamId |-> avInput.teamId, userId |-> avInput.userId] \in teamMemberships

\* The requested member has a membership row in the requested team.
MemberInTeam ==
  [teamId |-> avInput.teamId, userId |-> avInput.memberId] \in teamMemberships

\* The requested member has a username.
MemberHasUsername ==
  avInput.memberId \in 1..Len(Usernames) /\ Usernames[avInput.memberId] # ""

\* C21: the checks run in order and availability is computed only after all
\* of them pass. A caller outside the team gets UNAUTHORIZED with no member
\* list fetched; otherwise a memberId outside the team gets NOT_FOUND;
\* otherwise a member without username gets BAD_REQUEST; in none of these
\* cases is getUserAvailability called. When it is called, it is called once,
\* with the username and the user of the requested member of the requested
\* team, after the members of that team and of no other were fetched.
C21_ChecksBeforeAvailability ==
  /\ (avPc = "done" /\ avOutcome.kind = "error") =>
       avOutcome.code =
         IF ~CallerInTeam THEN "UNAUTHORIZED"
         ELSE IF ~MemberInTeam THEN "NOT_FOUND"
         ELSE "BAD_REQUEST"
  /\ (avPc = "done" /\ avOutcome.kind # "threw") =>
       (avOutcome.kind = "error" <=>
          ~(CallerInTeam /\ MemberInTeam /\ MemberHasUsername))
  /\ ~CallerInTeam => listFetches = << >>
  /\ ~(CallerInTeam /\ MemberInTeam /\ MemberHasUsername) =>
       availabilityCalls = << >>
  /\ \A i \in 1..Len(listFetches) : listFetches[i] = avInput.teamId
  /\ availabilityCalls # << >> =>
       /\ Len(availabilityCalls) = 1
       /\ Len(listFetches) = 1
       /\ availabilityCalls[1].user.id = avInput.memberId
       /\ availabilityCalls[1].username = Usernames[avInput.memberId]
       /\ availabilityCalls[1].username # ""
  /\ avOutcome = AvReturned => Len(availabilityCalls) = 1

\* Availability was returned for a member other than the caller, in a team
\* that has a member without username too, while the caller and the member
\* also belong to another team.
C21_Witness ==
  /\ avPc = "done"
  /\ avOutcome = AvReturned
  /\ avInput.memberId # avInput.userId
  /\ availabilityCalls # << >>
  /\ [teamId |-> avInput.teamId, userId |-> 2] \in teamMemberships
  /\ \E t \in TeamIds :
       /\ t # avInput.teamId
       /\ [teamId |-> t, userId |-> avInput.memberId] \in teamMemberships

====
